---- MODULE Spec2Model ----
(***************************************************************************)
(* Model of the cluster command dispatcher (pkg/synopsysctl/utils.go) and  *)
(* of the Black Duck resource composer (Creater.init).                     *)
(*                                                                         *)
(*   Spec         the dispatcher: DetermineClusterClients, getKubeExecCmd, *)
(*                RunKubeCmd, RunKubeCmdWithStdin, RunKubeEditorCmd,       *)
(*                KubectlApplyRuntimeObjects, KubectlDeleteRuntimeObjects  *)
(*   SpecCompose  Creater.init queuing objects on the deployer             *)
(*   SpecStdin    RunKubeCmdWithStdin step by step: the main flow, the     *)
(*                writer goroutine and the subprocess around the pipe      *)
(***************************************************************************)
EXTENDS Integers, Sequences, FiniteSets, TLC

VARIABLES
    \* process-wide globals of package synopsysctl (set once at start-up)
    insecureSkipTLSVerify, kubeConfigPath,
    \* what the last detection saw: exec.LookPath("oc"), exec.LookPath("kubectl"),
    \* util.IsOpenshift(kubeClient), and what it returned
    ocPath, kubectlPath, openshiftTest, kube, openshift,
    \* the last dispatcher call: its name, the caller's arguments, the exec.Cmd
    \* built, whether a subprocess was started, and what the call returned
    op, callArgs, cmd, spawned, ret,
    \* KubectlApply/DeleteRuntimeObjects: the objects in the order they were
    \* composed, the order the map iteration visited them, the piped payload
    objects, visited, content,
    \* Creater.init: the instance specification, whether the namespace probe
    \* found the namespace, the deployer's queue, init's return value
    createHub, nsFound, deployer, initRet,
    \* RunKubeCmdWithStdin step by step
    mainPc, writerPc, childPc, stdin, written, pipeBuf, consumed,
    writeEndOpen, parentReadOpen, childReadOpen, childSawEOF, writerClosed

dispatchVars == <<insecureSkipTLSVerify, kubeConfigPath, ocPath, kubectlPath,
                  openshiftTest, kube, openshift, op, callArgs, cmd, spawned,
                  ret, objects, visited, content>>
composeVars == <<createHub, nsFound, deployer, initRet>>
stdinVars == <<mainPc, writerPc, childPc, stdin, written, pipeBuf, consumed,
               writeEndOpen, parentReadOpen, childReadOpen, childSawEOF,
               writerClosed>>
vars == <<dispatchVars, composeVars, stdinVars>>

(***************************************************************************)
(* Bounds of the model.                                                    *)
(***************************************************************************)
MaxArgs == 2
MaxObjects == 3
MaxClaims == 2
MaxPayload == 2
PipeCap == 1

(***************************************************************************)
(* Helpers.                                                                *)
(***************************************************************************)
SeqsUpTo(S, lo, hi) == UNION {[1..n -> S] : n \in lo..hi}

Perms(n) == {p \in [1..n -> 1..n] : \A i, j \in 1..n : p[i] = p[j] => i = j}

RECURSIVE Flatten(_)
Flatten(ss) == IF ss = <<>> THEN <<>> ELSE Head(ss) \o Flatten(Tail(ss))

(***************************************************************************)
(* The cluster kind detector.                                              *)
(***************************************************************************)
\* DetermineClusterClients with a fourth rule that answers "both"
DetermineClusterClientsBoth(kubectlP, ocP, osTest) ==
    IF ocP /\ osTest THEN <<kubectlP, TRUE>>
    ELSE IF kubectlP /\ ~osTest THEN <<TRUE, FALSE>>
    ELSE IF kubectlP /\ ~ocP /\ osTest THEN <<TRUE, FALSE>>
    ELSE IF ocP /\ ~kubectlP /\ ~osTest THEN <<FALSE, TRUE>>
    ELSE <<FALSE, FALSE>>

\* DetermineClusterClients without the two fallback rules
DetermineClusterClientsNoFallback(kubectlP, ocP, osTest) ==
    IF ocP /\ osTest THEN <<FALSE, TRUE>>
    ELSE IF kubectlP /\ ~osTest THEN <<TRUE, FALSE>>
    ELSE <<FALSE, FALSE>>

\* the pair <<kube, openshift>> that DetermineClusterClients returns
DetermineClusterClients(kubectlP, ocP, osTest) ==
    IF ocP /\ osTest THEN <<FALSE, TRUE>>
    ELSE IF kubectlP /\ ~osTest THEN <<TRUE, FALSE>>
    ELSE IF kubectlP /\ ~ocP /\ osTest THEN <<TRUE, FALSE>>
    ELSE IF ocP /\ ~kubectlP /\ ~osTest THEN <<FALSE, TRUE>>
    ELSE <<FALSE, FALSE>>

(***************************************************************************)
(* The command dispatcher.                                                 *)
(***************************************************************************)
KubeConfigPaths == {"", "/etc/kube/config", "/home/user/.kube/config"}
ArgWords == {"cluster-info", "get", "status"}
CallArgs == SeqsUpTo(ArgWords, 1, MaxArgs)

NoCmd == [path |-> "", args |-> <<>>]
NoRet == [out |-> "", err |-> "none"]

\* fmt.Sprintf("--insecure-skip-tls-verify=%t", b)
InsecureFlag(b) ==
    IF b THEN "--insecure-skip-tls-verify=true" ELSE "--insecure-skip-tls-verify=false"

\* fmt.Sprintf("--kubeconfig=%s", path)
KubeconfigFlag(path) ==
    CASE path = "/etc/kube/config" -> "--kubeconfig=/etc/kube/config"
      [] path = "/home/user/.kube/config" -> "--kubeconfig=/home/user/.kube/config"
      [] OTHER -> "--kubeconfig="

\* the shim that never substitutes
ClusterInfoShimOff(args, isOpenshift) == args

\* args[0] = "status" when args[0] is "cluster-info" and the kind is OpenShift
ClusterInfoShim(args, isOpenshift) ==
    IF args[1] = "cluster-info" /\ isOpenshift
    THEN [args EXCEPT ![1] = "status"]
    ELSE args

\* the global flags prepended: insecure-skip-tls-verify first, then kubeconfig
\* in front of it
GlobalFlags(args) ==
    LET a1 == IF insecureSkipTLSVerify = TRUE
              THEN <<InsecureFlag(insecureSkipTLSVerify)>> \o args ELSE args
    IN  IF kubeConfigPath # "" THEN <<KubeconfigFlag(kubeConfigPath)>> \o a1 ELSE a1

\* getKubeExecCmd after detection: the exec.Cmd and the error
getKubeExecCmd(k, o, args) ==
    LET full == GlobalFlags(ClusterInfoShim(args, o))
    IN  IF o THEN [cmd |-> [path |-> "oc", args |-> full], err |-> "nil"]
        ELSE IF k THEN [cmd |-> [path |-> "kubectl", args |-> full], err |-> "nil"]
        ELSE [cmd |-> NoCmd, err |-> "detect"]

\* how a started subprocess can end: exit status 0, non-zero exit, or the
\* binary could not be started
RunOutcomes == {"exit0", "exit1", "spawnfail"}

\* cmd.CombinedOutput(): the output and the error of a run
CombinedOutput(outcome) ==
    CASE outcome = "exit0" -> [out |-> "output", err |-> "nil"]
      [] outcome = "exit1" -> [out |-> "output", err |-> "exit"]
      [] OTHER -> [out |-> "", err |-> "spawn"]

\* the detection every dispatch starts with, on what the probes answer
Detect(kp, op_, ot) ==
    /\ kubectlPath' = kp
    /\ ocPath' = op_
    /\ openshiftTest' = ot
    /\ kube' = DetermineClusterClients(kp, op_, ot)[1]
    /\ openshift' = DetermineClusterClients(kp, op_, ot)[2]

\* what RunKubeCmd and RunKubeCmdWithStdin do after detection: build the
\* command, return the detection error, else run it and return the output
RunResult(k, o, args, outcome) ==
    LET built == getKubeExecCmd(k, o, args)
    IN  IF built.err # "nil"
        THEN [cmd |-> built.cmd, spawned |-> FALSE,
              ret |-> [out |-> "", err |-> built.err]]
        ELSE [cmd |-> built.cmd, spawned |-> (outcome # "spawnfail"),
              ret |-> CombinedOutput(outcome)]

RunCaptured(name, args, outcome) ==
    LET r == RunResult(kube', openshift', args, outcome)
    IN  /\ op' = name
        /\ callArgs' = args
        /\ cmd' = r.cmd
        /\ spawned' = r.spawned
        /\ ret' = r.ret

DetermineClusterClientsCall ==
    /\ op = "none"
    /\ \E kp, op_, ot \in BOOLEAN : Detect(kp, op_, ot)
    /\ op' = "DetermineClusterClients"
    /\ callArgs' = <<>>
    /\ cmd' = NoCmd
    /\ spawned' = FALSE
    /\ ret' = NoRet
    /\ UNCHANGED <<insecureSkipTLSVerify, kubeConfigPath, objects, visited, content>>
    /\ UNCHANGED <<composeVars, stdinVars>>

RunKubeCmd ==
    /\ op = "none"
    /\ \E kp, op_, ot \in BOOLEAN, args \in CallArgs, outcome \in RunOutcomes :
          /\ Detect(kp, op_, ot)
          /\ RunCaptured("RunKubeCmd", args, outcome)
    /\ UNCHANGED <<insecureSkipTLSVerify, kubeConfigPath, objects, visited, content>>
    /\ UNCHANGED <<composeVars, stdinVars>>

RunKubeCmdWithStdin ==
    /\ op = "none"
    /\ \E kp, op_, ot \in BOOLEAN, args \in CallArgs, outcome \in RunOutcomes :
          /\ Detect(kp, op_, ot)
          /\ RunCaptured("RunKubeCmdWithStdin", args, outcome)
    /\ UNCHANGED <<insecureSkipTLSVerify, kubeConfigPath, objects, visited, content>>
    /\ UNCHANGED <<composeVars, stdinVars>>

\* RunKubeEditorCmd: cmd stays nil when neither kind was detected, and
\* cmd.Stdin = os.Stdin then dereferences the nil pointer
RunKubeEditorCmd ==
    /\ op = "none"
    /\ \E kp, op_, ot \in BOOLEAN, args \in CallArgs, outcome \in RunOutcomes :
          /\ Detect(kp, op_, ot)
          /\ op' = "RunKubeEditorCmd"
          /\ callArgs' = args
          /\ LET full == GlobalFlags(ClusterInfoShim(args, openshift'))
             IN  IF openshift'
                 THEN cmd' = [path |-> "oc", args |-> full]
                 ELSE IF kube'
                 THEN cmd' = [path |-> "kubectl", args |-> full]
                 ELSE cmd' = NoCmd
          /\ IF ~openshift' /\ ~kube'
             THEN /\ spawned' = FALSE
                  /\ ret' = [out |-> "", err |-> "panic"]
             ELSE /\ spawned' = (outcome # "spawnfail")
                  /\ ret' = [out |-> "", err |-> CombinedOutput(outcome).err]
    /\ UNCHANGED <<insecureSkipTLSVerify, kubeConfigPath, objects, visited, content>>
    /\ UNCHANGED <<composeVars, stdinVars>>

(***************************************************************************)
(* The object serializer: KubectlApplyRuntimeObjects and                   *)
(* KubectlDeleteRuntimeObjects.                                            *)
(***************************************************************************)
\* keys of the map[string]runtime.Object handed to apply and delete; the last
\* one stands for an object json.Marshal rejects
ObjectKeys == {"Namespace.bd", "Secret.bd", "PersistentVolumeClaim.pg", "Unstructured.nan"}

\* the object sets, each written in the order its objects were composed
ComposedObjects ==
    {s \in SeqsUpTo(ObjectKeys, 0, MaxObjects) :
        \A i, j \in 1..Len(s) : s[i] = s[j] => i = j}

\* json.Marshal(obj): the bytes of one object, and whether it failed
MarshalFails(key) == key = "Unstructured.nan"

Marshal(key) ==
    CASE key = "Namespace.bd" -> <<"{", "kind:Namespace", "name:bd", "}">>
      [] key = "Secret.bd" -> <<"{", "kind:Secret", "name:bd", "}">>
      [] key = "PersistentVolumeClaim.pg" -> <<"{", "kind:PersistentVolumeClaim", "name:pg", "}">>
      [] OTHER -> <<>>

\* "for _, obj := range objects": Go visits a map in an unspecified order, so
\* the order visited is any permutation p of the composed objects
MapRange(objs, p) == [i \in 1..Len(objs) |-> objs[p[i]]]

\* content after the loop over the objects in the order visited
Serialize(order) == Flatten([i \in 1..Len(order) |-> Marshal(order[i])])

ApplyArgs == <<"apply", "--validate=false", "-f", "-">>
DeleteArgs == <<"delete", "-f", "-">>

\* the body shared by the two functions: marshal every object in map order,
\* return the first marshalling error, else pipe the content to the command
KubectlRuntimeObjects(name, args, failed) ==
    \E objs \in ComposedObjects :
    \E p \in Perms(Len(objs)) :
       LET order == MapRange(objs, p)
       IN  /\ op' = name
           /\ objects' = objs
           /\ visited' = order
           /\ callArgs' = args
           /\ IF \E i \in 1..Len(order) : MarshalFails(order[i])
              THEN /\ content' = <<>>
                   /\ cmd' = NoCmd
                   /\ spawned' = FALSE
                   /\ ret' = [out |-> "", err |-> "marshal"]
                   /\ UNCHANGED <<ocPath, kubectlPath, openshiftTest, kube, openshift>>
              ELSE /\ content' = Serialize(order)
                   /\ \E kp, op_, ot \in BOOLEAN, outcome \in RunOutcomes :
                         /\ Detect(kp, op_, ot)
                         /\ LET r == RunResult(kube', openshift', args, outcome)
                            IN  /\ cmd' = r.cmd
                                /\ spawned' = r.spawned
                                /\ ret' = IF r.ret.err = "nil" THEN r.ret
                                          ELSE [out |-> r.ret.out, err |-> failed]

KubectlApplyRuntimeObjects ==
    /\ op = "none"
    /\ KubectlRuntimeObjects("KubectlApplyRuntimeObjects", ApplyArgs, "failed to deploy")
    /\ UNCHANGED <<insecureSkipTLSVerify, kubeConfigPath>>
    /\ UNCHANGED <<composeVars, stdinVars>>

KubectlDeleteRuntimeObjects ==
    /\ op = "none"
    /\ KubectlRuntimeObjects("KubectlDeleteRuntimeObjects", DeleteArgs, "failed to delete")
    /\ UNCHANGED <<insecureSkipTLSVerify, kubeConfigPath>>
    /\ UNCHANGED <<composeVars, stdinVars>>

\* the call has returned and its request is discarded; the globals stay
Return ==
    /\ op # "none"
    /\ ocPath' = FALSE /\ kubectlPath' = FALSE /\ openshiftTest' = FALSE
    /\ kube' = FALSE /\ openshift' = FALSE
    /\ op' = "none" /\ callArgs' = <<>> /\ cmd' = NoCmd /\ spawned' = FALSE
    /\ ret' = NoRet
    /\ objects' = <<>> /\ visited' = <<>> /\ content' = <<>>
    /\ UNCHANGED <<insecureSkipTLSVerify, kubeConfigPath>>
    /\ UNCHANGED <<composeVars, stdinVars>>

(***************************************************************************)
(* Values of the variables a specification does not use.                   *)
(***************************************************************************)
NoHub == [Namespace |-> "", PersistentStorage |-> FALSE, PVC |-> <<>>,
          PVCStorageClass |-> "", ExternalPostgres |-> "nil"]

DispatchIdle ==
    /\ insecureSkipTLSVerify = FALSE
    /\ kubeConfigPath = ""
    /\ ocPath = FALSE /\ kubectlPath = FALSE /\ openshiftTest = FALSE
    /\ kube = FALSE /\ openshift = FALSE
    /\ op = "none" /\ callArgs = <<>> /\ cmd = NoCmd /\ spawned = FALSE
    /\ ret = NoRet
    /\ objects = <<>> /\ visited = <<>> /\ content = <<>>

ComposeIdle ==
    /\ createHub = NoHub
    /\ nsFound = FALSE
    /\ deployer = <<>>
    /\ initRet = "none"

StdinIdle ==
    /\ mainPc = "idle" /\ writerPc = "idle" /\ childPc = "idle"
    /\ stdin = 0 /\ written = 0 /\ pipeBuf = 0 /\ consumed = 0
    /\ writeEndOpen = FALSE /\ parentReadOpen = FALSE /\ childReadOpen = FALSE
    /\ childSawEOF = FALSE /\ writerClosed = FALSE

(***************************************************************************)
(* The dispatcher's specification: the globals are set at start-up, then   *)
(* any of its operations is called, in any order.                          *)
(***************************************************************************)
Init ==
    /\ insecureSkipTLSVerify \in BOOLEAN
    /\ kubeConfigPath \in KubeConfigPaths
    /\ ocPath = FALSE /\ kubectlPath = FALSE /\ openshiftTest = FALSE
    /\ kube = FALSE /\ openshift = FALSE
    /\ op = "none" /\ callArgs = <<>> /\ cmd = NoCmd /\ spawned = FALSE
    /\ ret = NoRet
    /\ objects = <<>> /\ visited = <<>> /\ content = <<>>
    /\ ComposeIdle
    /\ StdinIdle

Next ==
    \/ DetermineClusterClientsCall
    \/ RunKubeCmd
    \/ RunKubeCmdWithStdin
    \/ RunKubeEditorCmd
    \/ KubectlApplyRuntimeObjects
    \/ KubectlDeleteRuntimeObjects
    \/ Return

Spec == Init /\ [][Next]_vars

(***************************************************************************)
(* The resource composer: Creater.init.                                    *)
(***************************************************************************)
KnownClaimNames ==
    {"blackduck-postgres", "blackduck-authentication", "blackduck-cfssl",
     "blackduck-registration", "blackduck-solr", "blackduck-webapp",
     "blackduck-logstash", "blackduck-zookeeper-data", "blackduck-zookeeper-datalog"}

\* the names a declaration can carry: the nine of the switch, and two the
\* switch does not know
ClaimNames == KnownClaimNames \cup {"postgres", "custom-claim"}

\* declared sizes: none (which the constructor rejects when the switch finds
\* no default for the name) and a quantity
ClaimSizes == {"", "10Gi"}
ClaimStorageClasses == {"", "fast"}
HubStorageClasses == {"standard"}
HubNamespace == "bd"

Claims == [Name : ClaimNames, Size : ClaimSizes, StorageClass : ClaimStorageClasses]

\* the instance specifications (v1.BlackduckSpec): ExternalPostgres is the
\* pointer, "nil" or "set"
Hubs == [Namespace : {HubNamespace}, PersistentStorage : BOOLEAN,
         PVC : SeqsUpTo(Claims, 0, MaxClaims),
         PVCStorageClass : HubStorageClasses,
         ExternalPostgres : {"nil", "set"}]

Object(kind, name, namespace) ==
    [kind |-> kind, name |-> name, namespace |-> namespace,
     size |-> "", storageClass |-> "", accessMode |-> ""]

\* the switch with the logstash case giving the common 2Gi
DefaultSizeLogstash2Gi(name) ==
    CASE name = "blackduck-postgres" -> "150Gi"
      [] OTHER -> "2Gi"

\* the size each case of the switch sets before it looks at claim.Size
DefaultSize(name) ==
    CASE name = "blackduck-postgres" -> "150Gi"
      [] name = "blackduck-authentication" -> "2Gi"
      [] name = "blackduck-cfssl" -> "2Gi"
      [] name = "blackduck-registration" -> "2Gi"
      [] name = "blackduck-solr" -> "2Gi"
      [] name = "blackduck-webapp" -> "2Gi"
      [] name = "blackduck-logstash" -> "20Gi"
      [] name = "blackduck-zookeeper-data" -> "2Gi"
      [] name = "blackduck-zookeeper-datalog" -> "2Gi"

\* the size the switch leaves in "size" for a declaration
ResolveSize(claim) ==
    IF claim.Name \in KnownClaimNames
    THEN IF Len(claim.Size) > 0 THEN claim.Size ELSE DefaultSize(claim.Name)
    ELSE claim.Size

\* storageClass: the declaration's class if it has one, else the instance's
ResolveStorageClass(claim, hub) ==
    IF Len(claim.StorageClass) > 0 THEN claim.StorageClass ELSE hub.PVCStorageClass

\* the quantities the claim constructor accepts
ValidQuantity(size) == size \in {"150Gi", "20Gi", "2Gi", "10Gi"}

\* util.CreatePersistentVolumeClaim: the PVC, or an error for a size that is
\* no quantity
CreatePersistentVolumeClaim(name, namespace, size, storageClass, accessMode) ==
    IF ValidQuantity(size)
    THEN [err |-> "nil",
          pvc |-> [kind |-> "PersistentVolumeClaim", name |-> name,
                   namespace |-> namespace, size |-> size,
                   storageClass |-> storageClass, accessMode |-> accessMode]]
    ELSE [err |-> "invalid size", pvc |-> Object("", "", "")]

\* hc.createHubSecrets, hc.createHubConfig and the postgres objects of the
\* container creater
createHubSecrets(hub) == <<Object("Secret", "db-creds", hub.Namespace)>>
createHubConfig(hub) == <<Object("ConfigMap", "hub-config", hub.Namespace),
                          Object("ConfigMap", "hub-db-config", hub.Namespace)>>
GetPostgresDeployment(hub) == Object("ReplicationController", "postgres", hub.Namespace)
GetPostgresService(hub) == Object("Service", "postgres", hub.Namespace)

\* the namespace is queued when util.GetNamespace returned an error
AddNamespaceStep(queue, hub, found) ==
    IF ~found THEN Append(queue, Object("Namespace", hub.Namespace, "")) ELSE queue

\* the secrets, the service account, the cluster role binding, the config maps
AddFixedObjects(queue, hub) ==
    queue \o createHubSecrets(hub)
          \o <<Object("ServiceAccount", hub.Namespace, hub.Namespace)>>
          \o <<Object("ClusterRoleBinding", hub.Namespace, "")>>
          \o createHubConfig(hub)

\* the loop going on to the next declaration after a constructor error
RECURSIVE AddPVCsContinue(_, _, _)
AddPVCsContinue(queue, hub, claims) ==
    IF claims = <<>> THEN [queue |-> queue, err |-> "nil", claim |-> ""]
    ELSE LET claim == Head(claims)
             made == CreatePersistentVolumeClaim(claim.Name, hub.Namespace,
                        ResolveSize(claim), ResolveStorageClass(claim, hub),
                        "ReadWriteOnce")
         IN  IF made.err # "nil"
             THEN [queue |-> AddPVCsContinue(queue, hub, Tail(claims)).queue,
                   err |-> "failed to create the postgres PVC", claim |-> claim.Name]
             ELSE AddPVCsContinue(Append(queue, made.pvc), hub, Tail(claims))

\* the loop over createHub.PVC: each PVC is queued as it is built, and the
\* first constructor error returns at once
RECURSIVE AddPVCs(_, _, _)
AddPVCs(queue, hub, claims) ==
    IF claims = <<>> THEN [queue |-> queue, err |-> "nil", claim |-> ""]
    ELSE LET claim == Head(claims)
             made == CreatePersistentVolumeClaim(claim.Name, hub.Namespace,
                        ResolveSize(claim), ResolveStorageClass(claim, hub),
                        "ReadWriteOnce")
         IN  IF made.err # "nil"
             THEN [queue |-> queue, err |-> "failed to create the postgres PVC",
                   claim |-> claim.Name]
             ELSE AddPVCs(Append(queue, made.pvc), hub, Tail(claims))

\* the loop run whatever createHub.PersistentStorage says
AddPVCStepAlways(queue, hub) == AddPVCs(queue, hub, hub.PVC)

\* the PVCs, queued only when createHub.PersistentStorage is set
AddPVCStep(queue, hub) ==
    IF hub.PersistentStorage
    THEN AddPVCs(queue, hub, hub.PVC)
    ELSE [queue |-> queue, err |-> "nil", claim |-> ""]

\* the postgres objects queued whatever createHub.ExternalPostgres is
AddPostgresStepAlways(queue, hub) ==
    queue \o <<GetPostgresDeployment(hub), GetPostgresService(hub)>>

\* the postgres controller and service, queued only when
\* createHub.ExternalPostgres is nil
AddPostgresStep(queue, hub) ==
    IF hub.ExternalPostgres = "nil"
    THEN queue \o <<GetPostgresDeployment(hub), GetPostgresService(hub)>>
    ELSE queue

\* Creater.init on a deployer holding `queue`: the deployer's queue when init
\* returns, and the error
initResult(queue, hub, found) ==
    LET q1 == AddFixedObjects(AddNamespaceStep(queue, hub, found), hub)
        planned == AddPVCStep(q1, hub)
    IN  IF planned.err # "nil"
        THEN planned
        ELSE [queue |-> AddPostgresStep(planned.queue, hub), err |-> "nil", claim |-> ""]

init ==
    /\ initRet = "none"
    /\ LET r == initResult(deployer, createHub, nsFound)
       IN  /\ deployer' = r.queue
           /\ initRet' = IF r.err = "nil" THEN "nil" ELSE "error"
    /\ UNCHANGED <<createHub, nsFound>>
    /\ UNCHANGED <<dispatchVars, stdinVars>>

InitCompose ==
    /\ createHub \in Hubs
    /\ nsFound \in BOOLEAN
    /\ deployer = <<>>
    /\ initRet = "none"
    /\ DispatchIdle
    /\ StdinIdle

NextCompose == init

SpecCompose == InitCompose /\ [][NextCompose]_vars

(***************************************************************************)
(* RunKubeCmdWithStdin step by step.  The pipe of cmd.StdinPipe() has a    *)
(* write end held by this process and a read end held by this process      *)
(* until Start and by the subprocess from then on.  pipeBuf counts the      *)
(* bytes in the pipe, written those the goroutine has written, consumed     *)
(* those the subprocess has read.                                           *)
(***************************************************************************)
stdinRest == <<insecureSkipTLSVerify, kubeConfigPath, objects, visited, content,
               composeVars>>

\* getKubeExecCmd: detection, then the command or the detection error
Stdin_getKubeExecCmd ==
    /\ mainPc = "call"
    /\ \E kp, op_, ot \in BOOLEAN :
          /\ Detect(kp, op_, ot)
          /\ LET built == getKubeExecCmd(kube', openshift', callArgs)
             IN  /\ cmd' = built.cmd
                 /\ IF built.err # "nil"
                    THEN /\ mainPc' = "returned"
                         /\ ret' = [out |-> "", err |-> built.err]
                    ELSE /\ mainPc' = "StdinPipe"
                         /\ ret' = ret
    /\ UNCHANGED <<op, callArgs, spawned, stdinRest>>
    /\ UNCHANGED <<writerPc, childPc, stdin, written, pipeBuf, consumed, writeEndOpen,
                   parentReadOpen, childReadOpen, childSawEOF, writerClosed>>

\* cmd2.StdinPipe(): the pipe is made, or the call fails and the error is returned
Stdin_StdinPipe ==
    /\ mainPc = "StdinPipe"
    /\ \/ /\ writeEndOpen' = TRUE
          /\ parentReadOpen' = TRUE
          /\ mainPc' = "go"
          /\ ret' = ret
       \/ /\ mainPc' = "returned"
          /\ ret' = [out |-> "", err |-> "pipe"]
          /\ UNCHANGED <<writeEndOpen, parentReadOpen>>
    /\ UNCHANGED <<ocPath, kubectlPath, openshiftTest, kube, openshift, op, callArgs,
                   cmd, spawned, stdinRest>>
    /\ UNCHANGED <<writerPc, childPc, stdin, written, pipeBuf, consumed,
                   childReadOpen, childSawEOF, writerClosed>>

\* go func() { ... }(): the goroutine exists; nothing waits for it
Stdin_go ==
    /\ mainPc = "go"
    /\ writerPc' = "WriteString"
    /\ mainPc' = "CombinedOutput"
    /\ UNCHANGED <<dispatchVars, composeVars>>
    /\ UNCHANGED <<childPc, stdin, written, pipeBuf, consumed, writeEndOpen,
                   parentReadOpen, childReadOpen, childSawEOF, writerClosed>>

\* cmd2.CombinedOutput(), first half (Start): the subprocess is started with
\* the read end and this process closes its copy; or the start fails, every
\* descriptor of the command is closed, and the error is returned
Stdin_Start ==
    /\ mainPc = "CombinedOutput"
    /\ \/ /\ childPc' = "running"
          /\ childReadOpen' = TRUE
          /\ parentReadOpen' = FALSE
          /\ spawned' = TRUE
          /\ mainPc' = "Wait"
          /\ UNCHANGED <<writeEndOpen, ret>>
       \/ /\ parentReadOpen' = FALSE
          /\ writeEndOpen' = FALSE
          /\ mainPc' = "returned"
          /\ ret' = CombinedOutput("spawnfail")
          /\ UNCHANGED <<childPc, childReadOpen, spawned>>
    /\ UNCHANGED <<ocPath, kubectlPath, openshiftTest, kube, openshift, op, callArgs,
                   cmd, stdinRest>>
    /\ UNCHANGED <<writerPc, stdin, written, pipeBuf, consumed, childSawEOF, writerClosed>>

\* cmd2.CombinedOutput(), second half (Wait): once the subprocess has exited,
\* Wait closes the write end of the pipe and the output is returned
Stdin_Wait ==
    /\ mainPc = "Wait"
    /\ childPc = "exited"
    /\ writeEndOpen' = FALSE
    /\ mainPc' = "returned"
    /\ \E outcome \in {"exit0", "exit1"} : ret' = CombinedOutput(outcome)
    /\ UNCHANGED <<ocPath, kubectlPath, openshiftTest, kube, openshift, op, callArgs,
                   cmd, spawned, stdinRest>>
    /\ UNCHANGED <<writerPc, childPc, stdin, written, pipeBuf, consumed,
                   parentReadOpen, childReadOpen, childSawEOF, writerClosed>>

\* the goroutine closes the pipe before it has written
WriteStringSkipped == writerPc \in {"WriteString", "Close"}

\* io.WriteString has returned: the deferred stdinPipe.Close() runs next
WriteStringReturned == writerPc = "Close"

\* io.WriteString(stdinPipe, stdin): a byte goes into the pipe when there is
\* room; the write returns when all is written, and fails when the write end
\* was closed or no read end is left
Writer_WriteString ==
    /\ writerPc = "WriteString"
    /\ \/ /\ written = stdin
          /\ writerPc' = "Close"
          /\ UNCHANGED <<written, pipeBuf>>
       \/ /\ written < stdin
          /\ ~writeEndOpen \/ (~parentReadOpen /\ ~childReadOpen)
          /\ writerPc' = "Close"
          /\ UNCHANGED <<written, pipeBuf>>
       \/ /\ written < stdin
          /\ writeEndOpen
          /\ parentReadOpen \/ childReadOpen
          /\ pipeBuf < PipeCap
          /\ written' = written + 1
          /\ pipeBuf' = pipeBuf + 1
          /\ writerPc' = writerPc
    /\ UNCHANGED <<dispatchVars, composeVars>>
    /\ UNCHANGED <<mainPc, childPc, stdin, consumed, writeEndOpen, parentReadOpen,
                   childReadOpen, childSawEOF, writerClosed>>

\* defer stdinPipe.Close()
Writer_Close ==
    /\ WriteStringReturned
    /\ writeEndOpen' = FALSE
    /\ writerClosed' = TRUE
    /\ writerPc' = "done"
    /\ UNCHANGED <<dispatchVars, composeVars>>
    /\ UNCHANGED <<mainPc, childPc, stdin, written, pipeBuf, consumed,
                   parentReadOpen, childReadOpen, childSawEOF>>

\* the subprocess reads a byte of its standard input
Child_Read ==
    /\ childPc = "running"
    /\ pipeBuf > 0
    /\ pipeBuf' = pipeBuf - 1
    /\ consumed' = consumed + 1
    /\ UNCHANGED <<dispatchVars, composeVars>>
    /\ UNCHANGED <<mainPc, writerPc, childPc, stdin, written, writeEndOpen,
                   parentReadOpen, childReadOpen, childSawEOF, writerClosed>>

\* the subprocess reads end-of-file: the pipe is empty and its write end closed
Child_ReadEOF ==
    /\ childPc = "running"
    /\ pipeBuf = 0
    /\ ~writeEndOpen
    /\ ~childSawEOF
    /\ childSawEOF' = TRUE
    /\ UNCHANGED <<dispatchVars, composeVars>>
    /\ UNCHANGED <<mainPc, writerPc, childPc, stdin, written, pipeBuf, consumed,
                   writeEndOpen, parentReadOpen, childReadOpen, writerClosed>>

\* the subprocess exits, whether or not it has read its input
Child_Exit ==
    /\ childPc = "running"
    /\ childPc' = "exited"
    /\ childReadOpen' = FALSE
    /\ UNCHANGED <<dispatchVars, composeVars>>
    /\ UNCHANGED <<mainPc, writerPc, stdin, written, pipeBuf, consumed,
                   writeEndOpen, parentReadOpen, childSawEOF, writerClosed>>

InitStdin ==
    /\ insecureSkipTLSVerify = FALSE
    /\ kubeConfigPath = ""
    /\ ocPath = FALSE /\ kubectlPath = FALSE /\ openshiftTest = FALSE
    /\ kube = FALSE /\ openshift = FALSE
    /\ op = "RunKubeCmdWithStdin"
    /\ callArgs \in {ApplyArgs, DeleteArgs}
    /\ cmd = NoCmd /\ spawned = FALSE /\ ret = NoRet
    /\ objects = <<>> /\ visited = <<>> /\ content = <<>>
    /\ ComposeIdle
    /\ mainPc = "call" /\ writerPc = "idle" /\ childPc = "idle"
    /\ stdin \in 0..MaxPayload
    /\ written = 0 /\ pipeBuf = 0 /\ consumed = 0
    /\ writeEndOpen = FALSE /\ parentReadOpen = FALSE /\ childReadOpen = FALSE
    /\ childSawEOF = FALSE /\ writerClosed = FALSE

NextStdin ==
    \/ Stdin_getKubeExecCmd
    \/ Stdin_StdinPipe
    \/ Stdin_go
    \/ Stdin_Start
    \/ Stdin_Wait
    \/ Writer_WriteString
    \/ Writer_Close
    \/ Child_Read
    \/ Child_ReadEOF
    \/ Child_Exit

SpecStdin == InitStdin /\ [][NextStdin]_vars

(***************************************************************************)
(* Properties.                                                             *)
(***************************************************************************)
DispatchOps == {"RunKubeCmd", "RunKubeCmdWithStdin", "RunKubeEditorCmd"}
Detected == op # "none" /\ ret.err # "marshal"

\* C1: DetermineClusterClients never returns kube and openshift both true,
\* whatever the two path look-ups and the cluster probe answer.
C1_NeverBoth == Detected => ~(kube /\ openshift)

C1_Witness ==
    /\ op = "DetermineClusterClients"
    /\ ocPath /\ kubectlPath /\ openshiftTest
    /\ openshift /\ ~kube

\* the decision table of the detector, row by row for the eight inputs
\* <<oc present, kubectl present, cluster is OpenShift>>
DecisionTable(oc, kubectl, os) ==
    CASE <<oc, kubectl, os>> = <<TRUE, TRUE, TRUE>> -> "OpenShift"
      [] <<oc, kubectl, os>> = <<TRUE, FALSE, TRUE>> -> "OpenShift"
      [] <<oc, kubectl, os>> = <<TRUE, TRUE, FALSE>> -> "Kubernetes"
      [] <<oc, kubectl, os>> = <<FALSE, TRUE, FALSE>> -> "Kubernetes"
      [] <<oc, kubectl, os>> = <<FALSE, TRUE, TRUE>> -> "Kubernetes"
      [] <<oc, kubectl, os>> = <<TRUE, FALSE, FALSE>> -> "OpenShift"
      [] <<oc, kubectl, os>> = <<FALSE, FALSE, TRUE>> -> "Undetermined"
      [] <<oc, kubectl, os>> = <<FALSE, FALSE, FALSE>> -> "Undetermined"

ClusterKind ==
    CASE kube /\ ~openshift -> "Kubernetes"
      [] openshift /\ ~kube -> "OpenShift"
      [] ~kube /\ ~openshift -> "Undetermined"
      [] OTHER -> "Both"

\* C2: for each of the eight inputs the detector returns the decision
\* table's result, and it returns Undetermined exactly when neither binary
\* is on the path.
C2_DecisionTable ==
    Detected =>
        /\ ClusterKind = DecisionTable(ocPath, kubectlPath, openshiftTest)
        /\ (ClusterKind = "Undetermined") <=> (~ocPath /\ ~kubectlPath)

C2_Witness ==
    /\ op = "DetermineClusterClients"
    /\ ~ocPath /\ kubectlPath /\ openshiftTest
    /\ ClusterKind = "Kubernetes"

ClusterInfoOnOpenShift ==
    /\ op \in DispatchOps
    /\ callArgs = <<"cluster-info">>
    /\ openshift

\* C5 as stated: dispatching ["cluster-info"] against OpenShift, the first
\* argument handed to oc is "status", whatever the insecure-TLS toggle and
\* the kubeconfig path are.
C5_FirstArgIsStatus ==
    ClusterInfoOnOpenShift => cmd.args[1] = "status"

\* C5, amended: dispatching ["cluster-info"] against OpenShift, oc is handed
\* "status" in place of "cluster-info" as the last argument, behind the
\* global flags; it is the first argument exactly when the insecure-TLS
\* toggle is off and no kubeconfig path is set.
C5_StatusBehindGlobalFlags ==
    ClusterInfoOnOpenShift =>
        /\ cmd.path = "oc"
        /\ cmd.args[Len(cmd.args)] = "status"
        /\ \A i \in 1..Len(cmd.args) : cmd.args[i] # "cluster-info"
        /\ (cmd.args[1] = "status") <=> (~insecureSkipTLSVerify /\ kubeConfigPath = "")

C5_Witness ==
    /\ op = "RunKubeEditorCmd"
    /\ callArgs = <<"cluster-info">>
    /\ openshift
    /\ insecureSkipTLSVerify
    /\ kubeConfigPath = "/etc/kube/config"
    /\ cmd.args = <<"--kubeconfig=/etc/kube/config", "--insecure-skip-tls-verify=true", "status">>

\* C6: when detection is Undetermined, every dispatch operation returns
\* the detection error to its caller and starts no subprocess.
C6_UndeterminedReturnsError ==
    (op \in DispatchOps /\ ~kube /\ ~openshift) =>
        (ret.err = "detect" /\ ~spawned)

\* C8: the payload that apply and delete pipe to the subprocess is the
\* concatenation of the serialized objects in the order they were composed.
C8_CompositionOrder ==
    (op \in {"KubectlApplyRuntimeObjects", "KubectlDeleteRuntimeObjects"}
        /\ spawned) =>
        content = Serialize(objects)

\* the PVCs on the deployer, in the order they were queued
QueuedPVCs == SelectSeq(deployer, LAMBDA o : o.kind = "PersistentVolumeClaim")
QueuedOfKind(kind) == SelectSeq(deployer, LAMBDA o : o.kind = kind)

\* the Resource Defaults Table with the names as the specification lists them
TableNames == {"postgres", "authentication", "cfssl", "registration", "solr",
               "webapp", "logstash", "zookeeper-data", "zookeeper-datalog"}
TableSize(name) ==
    IF name = "postgres" THEN "150Gi" ELSE IF name = "logstash" THEN "20Gi" ELSE "2Gi"

\* the same table under the names the composer recognizes
PrefixedTableSize(name) ==
    IF name = "blackduck-postgres" THEN "150Gi"
    ELSE IF name = "blackduck-logstash" THEN "20Gi" ELSE "2Gi"

\* the loop reached declaration i: every declaration before it was queued
Reached(i) == Len(QueuedPVCs) >= i - 1

\* declaration i has its PVC queued with the given size
QueuedWithSize(i, size) ==
    /\ Len(QueuedPVCs) >= i
    /\ QueuedPVCs[i].name = createHub.PVC[i].Name
    /\ QueuedPVCs[i].size = size

\* C3 as stated: with persistence enabled, a declaration with no size named
\* postgres, authentication, ... or zookeeper-datalog gets a PVC of the
\* table's size.
C3_TableNamesAsListed ==
    (initRet # "none" /\ createHub.PersistentStorage) =>
        \A i \in 1..Len(createHub.PVC) :
            (Reached(i) /\ createHub.PVC[i].Size = ""
                /\ createHub.PVC[i].Name \in TableNames) =>
                QueuedWithSize(i, TableSize(createHub.PVC[i].Name))

\* C3, amended: with persistence enabled, a declaration with no size named
\* blackduck-postgres, blackduck-authentication, ... or
\* blackduck-zookeeper-datalog gets a PVC of the table's size: 150Gi for
\* blackduck-postgres, 20Gi for blackduck-logstash, 2Gi for the others.
C3_PrefixedNames ==
    (initRet # "none" /\ createHub.PersistentStorage) =>
        \A i \in 1..Len(createHub.PVC) :
            (Reached(i) /\ createHub.PVC[i].Size = ""
                /\ createHub.PVC[i].Name \in KnownClaimNames) =>
                QueuedWithSize(i, PrefixedTableSize(createHub.PVC[i].Name))

C3_Witness ==
    /\ initRet = "nil"
    /\ createHub.PersistentStorage
    /\ Len(createHub.PVC) = 2
    /\ createHub.PVC[1] = [Name |-> "blackduck-postgres", Size |-> "", StorageClass |-> ""]
    /\ createHub.PVC[2] = [Name |-> "blackduck-logstash", Size |-> "", StorageClass |-> "fast"]
    /\ QueuedWithSize(1, "150Gi")
    /\ QueuedWithSize(2, "20Gi")
    /\ QueuedPVCs[1].accessMode = "ReadWriteOnce"

\* C4 as stated: when the constructor rejects a declaration, init returns
\* an error and nothing of the pass is left queued on the deployer.
C4_NothingLeftQueued ==
    initRet = "error" => deployer = <<>>

\* the objects init queues before it comes to the PVCs
QueuedBeforePVCs ==
    AddFixedObjects(AddNamespaceStep(<<>>, createHub, nsFound), createHub)

\* C4, amended: when the constructor rejects the k-th declaration, init
\* returns an error at once: it queues no PVC for the k-th or any later
\* declaration and no embedded-database object, while what it queued before
\* (namespace, secrets, service account, role binding, config maps and the
\* PVCs of declarations 1..k-1) stays queued on the deployer.
C4_AbortsAtFirstRejection ==
    initRet = "error" =>
        LET k == Len(QueuedPVCs) + 1
        IN  /\ createHub.PersistentStorage
            /\ k <= Len(createHub.PVC)
            /\ ~ValidQuantity(ResolveSize(createHub.PVC[k]))
            /\ \A i \in 1..(k - 1) : QueuedPVCs[i].name = createHub.PVC[i].Name
            /\ deployer = QueuedBeforePVCs \o QueuedPVCs
            /\ QueuedOfKind("ReplicationController") = <<>>
            /\ QueuedOfKind("Service") = <<>>

C4_Witness ==
    /\ initRet = "error"
    /\ Len(createHub.PVC) = 2
    /\ createHub.PVC[2].Name = "custom-claim"
    /\ createHub.ExternalPostgres = "nil"
    /\ Len(QueuedPVCs) = 1
    /\ QueuedPVCs[1].name = "blackduck-postgres"

\* C9: a successful composition queues exactly one embedded-database
\* controller and exactly one matching Service when ExternalPostgres is nil,
\* and neither when it is set.
C9_EmbeddedDatabase ==
    initRet = "nil" =>
        IF createHub.ExternalPostgres = "nil"
        THEN /\ QueuedOfKind("ReplicationController") = <<GetPostgresDeployment(createHub)>>
             /\ QueuedOfKind("Service") = <<GetPostgresService(createHub)>>
        ELSE /\ QueuedOfKind("ReplicationController") = <<>>
             /\ QueuedOfKind("Service") = <<>>

C9_Witness ==
    /\ initRet = "nil"
    /\ createHub.ExternalPostgres = "set"
    /\ createHub.PersistentStorage
    /\ Len(QueuedPVCs) = 2
    /\ QueuedOfKind("Service") = <<>>

\* C10: with persistence disabled, init queues no PVC whatever is declared,
\* and does not fail.
C10_NoPVCWithoutPersistence ==
    (initRet # "none" /\ ~createHub.PersistentStorage) =>
        (QueuedPVCs = <<>> /\ initRet = "nil")

C10_Witness ==
    /\ initRet = "nil"
    /\ ~createHub.PersistentStorage
    /\ Len(createHub.PVC) = 2
    /\ createHub.PVC[1].Name = "blackduck-postgres"
    /\ createHub.PVC[2] = [Name |-> "custom-claim", Size |-> "", StorageClass |-> ""]
    /\ QueuedPVCs = <<>>

\* the output was captured: the subprocess ran and Wait has returned
CaptureCompleted == mainPc = "returned" /\ spawned

\* C7 as stated: in every interleaving the writer has written the whole
\* payload and closed the pipe before output capture completes and the
\* function returns, also when the subprocess does not read all its input.
C7_WriterDoneBeforeReturn ==
    CaptureCompleted => (written = stdin /\ writerClosed)

\* C7, amended: in every interleaving in which the subprocess reads its
\* standard input to end-of-file, the writer has written the whole payload
\* and closed the pipe, and the subprocess has read all of it, before output
\* capture completes and the function returns.
C7_WriterDoneWhenInputReadToEOF ==
    childSawEOF =>
        /\ written = stdin
        /\ consumed = stdin
        /\ writerClosed
        /\ writerPc = "done"

C7_Witness ==
    /\ CaptureCompleted
    /\ childSawEOF
    /\ stdin = MaxPayload
    /\ written = MaxPayload
    /\ writerClosed

====
